---- MODULE Spec2Model ----
(***************************************************************************)
(* PyPong (src/pong.py, src/ai.py): the match controller PongGame, its     *)
(* bodies (Ball, Paddle) and the rule-based opponent policy.               *)
(*                                                                         *)
(* Numbers.  The program computes with Python floats.  The model keeps     *)
(* every length and velocity as an integer number of 1/Scale pixels and    *)
(* rounds each product and quotient to the nearest unit, as the float      *)
(* operations round to the nearest representable value.  Sums and          *)
(* comparisons are exact.                                                  *)
(*                                                                         *)
(* Positions.  A GameObject keeps its box twice, in bounding_box.origin    *)
(* and in the canvas item; move() adds the same delta to both and the      *)
(* constructors give both the same corners, so the model keeps one box     *)
(* (x, y, w, h) per body.  canvas.winfo_width()/winfo_height() are the     *)
(* configured window_width/window_height.                                  *)
(***************************************************************************)
EXTENDS Integers, Sequences, FiniteSets, TLC

\* ------------------------------------------------------------------ bounds
\* Units per pixel of the fixed-point representation of floats.
Scale == 100
\* Timer ticks taken in one run of the model.
MaxTicks == 2
\* ticks of a match whose paddles the policy drives
MaxDriven == 3

\* --------------------------------------------------------------- constants
window_width == 800
window_height == 400
BALL_SIZE == 12
Ball_DEFAULT_SPEED == 3
Ball_DEFAULT_MAX_SPEED == 10
PADDLE_WIDTH == 10
PADDLE_HEIGHT == 40
Paddle_DEFAULT_SPEED == 8
x_offset == 25
PLAYER_ONE == 1
PLAYER_TWO == 2
\* spin=0.2 and hit_speedup=1.05, as fractions
spin == [num |-> 2, den |-> 10]
hit_speedup == [num |-> 105, den |-> 100]

\* n pixels (or pixels per tick) in model units
Px(n) == n * Scale
W == Px(window_width)
H == Px(window_height)

\* ----------------------------------------------------------------- numbers
Abs(a) == IF a < 0 THEN -a ELSE a
Sign(a) == IF a < 0 THEN -1 ELSE IF a > 0 THEN 1 ELSE 0

\* a / b for b > 0, rounded to the nearest unit (sign-symmetric)
RoundDiv(a, b) == Sign(a) * ((2 * Abs(a) + b) \div (2 * b))

\* v * f for the fraction f
MulFrac(v, f) == RoundDiv(v * f.num, f.den)

RECURSIVE SqrtSearch(_, _, _)
SqrtSearch(n, lo, hi) ==
  IF lo >= hi THEN lo
  ELSE LET mid == (lo + hi + 1) \div 2
       IN IF mid * mid <= n THEN SqrtSearch(n, mid, hi) ELSE SqrtSearch(n, lo, mid - 1)

\* floor of the square root of n >= 0
FloorSqrt(n) == SqrtSearch(n, 0, 40000)

\* sqrt(n), rounded to the nearest unit
RoundSqrt(n) ==
  LET r == FloorSqrt(n)
  IN IF n - r * r > r THEN r + 1 ELSE r

\* ------------------------------------------------------------------- Point
\* Point.magnitude of the vector (vx, vy)
magnitude(vx, vy) == RoundSqrt(vx * vx + vy * vy)

\* Point.unit_vector: self / magnitude, components in model units
unit_vector(vx, vy) ==
  LET m == magnitude(vx, vy)
  IN [x |-> RoundDiv(vx * Scale, m), y |-> RoundDiv(vy * Scale, m)]

\* ------------------------------------------------------------- BoundingBox
Left(o) == o.x
Right(o) == o.x + o.w
Top(o) == o.y
Bottom(o) == o.y + o.h
CentreX(o) == o.x + o.w \div 2
CentreY(o) == o.y + o.h \div 2

intersects(a, b) ==
  LET x_overlaps == Right(a) > Left(b) /\ Right(b) > Left(a)
      y_overlaps == Bottom(a) > Top(b) /\ Bottom(b) > Top(a)
  IN x_overlaps /\ y_overlaps

\* -------------------------------------------------------------- GameObject
move(o, dx, dy) == [o EXCEPT !.x = @ + dx, !.y = @ + dy]

GameObject_update(o) == move(o, o.vx, o.vy)

is_out_of_bounds(o) ==
  Left(o) < 0 \/ Right(o) > W \/ Top(o) < 0 \/ Bottom(o) > H

\* -------------------------------------------------------------------- Ball
\* Ball.__init__ that always starts the ball downwards
Ball_downwards(x1, y1, x2, y2, speed, max_speed, x_dir, y_dir) ==
  [x |-> x1, y |-> y1, w |-> x2 - x1, h |-> y2 - y1,
   vx |-> speed * x_dir, vy |-> speed, max_speed |-> max_speed]

\* Ball.__init__: x_dir and y_dir are the two signs drawn with random.gauss
Ball(x1, y1, x2, y2, speed, max_speed, x_dir, y_dir) ==
  [x |-> x1, y |-> y1, w |-> x2 - x1, h |-> y2 - y1,
   vx |-> speed * x_dir, vy |-> speed * y_dir, max_speed |-> max_speed]

\* Ball.get_centred_ball: the max_speed argument is not handed on to Ball(),
\* whose own default applies
get_centred_ball(speed, max_speed, x_dir, y_dir) ==
  LET x == W \div 2 - Px(BALL_SIZE) \div 2
      y == H \div 2 - Px(BALL_SIZE) \div 2
  IN Ball(x, y, x + Px(BALL_SIZE), y + Px(BALL_SIZE), speed,
          Px(Ball_DEFAULT_MAX_SPEED), x_dir, y_dir)

\* Ball.update with the bounce only for a ball past an edge
Ball_wall_strict(b) ==
  IF Top(b) < 0 \/ Bottom(b) > H
  THEN LET dy == IF Top(b) < 0 THEN -Top(b) ELSE H - Bottom(b)
       IN move([b EXCEPT !.vy = -b.vy], 0, dy)
  ELSE b

\* Ball.update that turns the ball at an edge and leaves it where it is
Ball_wall_in_place(b) ==
  IF Top(b) <= 0 \/ Bottom(b) >= H THEN [b EXCEPT !.vy = -b.vy] ELSE b

\* Ball.update, lines 202-211: the bounce off the upper or lower screen edge
Ball_wall(b) ==
  IF Top(b) <= 0 \/ Bottom(b) >= H
  THEN LET dy == IF Top(b) <= 0 THEN -Top(b) ELSE H - Bottom(b)
       IN move([b EXCEPT !.vy = -b.vy], 0, dy)
  ELSE b

\* Ball.update without the speed limit
Ball_clamp_off(b) == b

\* Ball.update, lines 213-214: the speed limit
Ball_clamp(b) ==
  IF magnitude(b.vx, b.vy) > b.max_speed
  THEN LET u == unit_vector(b.vx, b.vy)
       IN [b EXCEPT !.vx = RoundDiv(b.max_speed * u.x, Scale),
                    !.vy = RoundDiv(b.max_speed * u.y, Scale)]
  ELSE b

Ball_update(b) == Ball_clamp(Ball_wall(GameObject_update(b)))

\* ------------------------------------------------------------------ Paddle
Paddle(x1, y1, x2, y2, speed) ==
  [x |-> x1, y |-> y1, w |-> x2 - x1, h |-> y2 - y1,
   vx |-> 0, vy |-> 0, speed |-> speed]

make_paddle(player, speed) ==
  LET x == IF player = PLAYER_ONE THEN Px(x_offset)
           ELSE W - Px(x_offset) - Px(PADDLE_WIDTH)
      y == (H - Px(PADDLE_HEIGHT)) \div 2
  IN Paddle(x, y, x + Px(PADDLE_WIDTH), y + Px(PADDLE_HEIGHT), speed)

\* move_up that adds to the velocity the paddle has
move_up_adding(p) == [p EXCEPT !.vx = 0, !.vy = @ - p.speed]

move_up(p) == [p EXCEPT !.vx = 0, !.vy = -p.speed]
move_down(p) == [p EXCEPT !.vx = 0, !.vy = p.speed]
stop(p) == [p EXCEPT !.vx = 0, !.vy = 0]

\* Paddle.update without keeping the paddle on screen
Paddle_update_unclamped(p) == GameObject_update(p)

Paddle_update(p) ==
  LET m == GameObject_update(p)
      y1 == Top(m)
      y2 == Bottom(m)
      dy == IF y1 < 0 THEN -y1 ELSE IF y2 > H THEN H - y2 ELSE 0
  IN move(m, 0, dy)

\* ---------------------------------------------------------------------- ai
None == "None"
RULE_BASED == "RULE_BASED"

\* The methods an agent object answers to: AIAgent defines noop and get_action,
\* RuleBased adds is_ball_approaching
Methods(agent) ==
  IF agent = "RuleBased" THEN {"noop", "get_action", "is_ball_approaching"}
  ELSE IF agent = "AIAgent" THEN {"noop", "get_action"}
  ELSE {}

\* AIFactory.make_ai: an agent object for every ai_type, None included
make_ai(ai_type) == IF ai_type = RULE_BASED THEN "RuleBased" ELSE "AIAgent"

\* AIAgent.Difficulty
EASY == 1
MEDIUM == 2
HARD == 3
IMPOSSIBLE == 4
Difficulties == {EASY, MEDIUM, HARD, IMPOSSIBLE}

\* RuleBased.__init__: dead_zone_size, a fraction of the canvas width
dead_zone_size(difficulty) ==
  IF difficulty = EASY THEN MulFrac(W, [num |-> 8, den |-> 10])
  ELSE IF difficulty = MEDIUM THEN MulFrac(W, [num |-> 5, den |-> 10])
  ELSE IF difficulty = HARD THEN MulFrac(W, [num |-> 2, den |-> 10])
  ELSE 0

\* RuleBased.is_ball_approaching
is_ball_approaching(b, p) ==
  \/ CentreX(p) > W \div 2 /\ b.vx > 0
  \/ CentreX(p) < W \div 2 /\ b.vx < 0

\* get_action that never takes the paddle for aligned while its centre is off
\* the height it aims at
get_action_centre_only(difficulty, p, b) ==
  LET resting == Abs(CentreX(b) - CentreX(p)) > dead_zone_size(difficulty)
                 \/ ~is_ball_approaching(b, p)
      aim == IF resting THEN H \div 2 - p.h \div 2 ELSE CentreY(b)
      dy == aim - CentreY(p)
  IN IF dy < 0 THEN "move_up" ELSE IF dy > 0 THEN "move_down" ELSE "stop"

\* get_action that rests only for a ball beyond the dead zone and follows a
\* ball that moves away
get_action_follows_receding(difficulty, p, b) ==
  LET resting == Abs(CentreX(b) - CentreX(p)) > dead_zone_size(difficulty)
      aim == IF resting THEN H \div 2 - p.h \div 2 ELSE CentreY(b)
      dy == IF Top(p) < aim /\ aim < Bottom(p) THEN 0 ELSE aim - CentreY(p)
  IN IF dy < 0 THEN "move_up" ELSE IF dy > 0 THEN "move_down" ELSE "stop"

\* RuleBased.get_action on the snapshot {canvas, paddle p, ball b}: the method
\* of the paddle that is returned
get_action(difficulty, p, b) ==
  LET resting == Abs(CentreX(b) - CentreX(p)) > dead_zone_size(difficulty)
                 \/ ~is_ball_approaching(b, p)
      aim == IF resting THEN H \div 2 - p.h \div 2 ELSE CentreY(b)
      dy == IF Top(p) < aim /\ aim < Bottom(p) THEN 0 ELSE aim - CentreY(p)
  IN IF dy < 0 THEN "move_up" ELSE IF dy > 0 THEN "move_down" ELSE "stop"

\* ---------------------------------------------------------------- PongGame
VARIABLES
  ball,        \* PongGame.ball
  pad1,        \* PongGame.pad1
  pad2,        \* PongGame.pad2
  p1_score,    \* PongGame.p1_score
  p2_score,    \* PongGame.p2_score
  paused,      \* PongGame.paused
  ai_players,  \* PongGame.ai_players
  ball_max_speed,  \* PongGame.ball_max_speed, in pixels per tick
  scheduled,   \* a call of mainloop is pending (run(), or canvas.after)
  nticks,      \* calls of mainloop so far
  last,        \* the last event and what its steps did
  prev_hit     \* the paddle hit in the latest tick whose update() ran; a tick
               \* records in last.after the value it found

vars ==
  <<ball, pad1, pad2, p1_score, p2_score, paused, ai_players, ball_max_speed,
    scheduled, nticks, last, prev_hit>>

Keys == {"w", "s", "up", "down", "space", "r"}
Dirs == {-1, 1}

\* the fields of the controller that its methods read and write
Self ==
  [ball |-> ball, pad1 |-> pad1, pad2 |-> pad2, p1_score |-> p1_score,
   p2_score |-> p2_score, paused |-> paused]

pause(g) == [g EXCEPT !.paused = TRUE]
unpause(g) == [g EXCEPT !.paused = FALSE]
\* toggle_pause that never unpauses
toggle_pause_stuck(g) == pause(g)

toggle_pause(g) == IF g.paused THEN unpause(g) ELSE pause(g)

\* reset that also starts the scores again
reset_scores_too(g, x_dir, y_dir) ==
  pause([g EXCEPT
    !.ball = get_centred_ball(Px(Ball_DEFAULT_SPEED), Px(ball_max_speed), x_dir, y_dir),
    !.pad1 = make_paddle(PLAYER_ONE, Px(Paddle_DEFAULT_SPEED)),
    !.pad2 = make_paddle(PLAYER_TWO, Px(Paddle_DEFAULT_SPEED)),
    !.p1_score = 0, !.p2_score = 0])

\* PongGame.reset: a new centred ball, two new paddles, paused
reset(g, x_dir, y_dir) ==
  pause([g EXCEPT
    !.ball = get_centred_ball(Px(Ball_DEFAULT_SPEED), Px(ball_max_speed), x_dir, y_dir),
    !.pad1 = make_paddle(PLAYER_ONE, Px(Paddle_DEFAULT_SPEED)),
    !.pad2 = make_paddle(PLAYER_TWO, Px(Paddle_DEFAULT_SPEED))])

\* collide with the right paddle tested after the left one, not instead of it
collide_both(b, p1, p2) ==
  LET l == IF intersects(b, p1)
           THEN LET b1 == [b EXCEPT !.vx = MulFrac(-b.vx, hit_speedup),
                                    !.vy = b.vy + MulFrac(p1.vy, spin)]
                IN move(b1, Right(p1) - Left(b1), 0)
           ELSE b
  IN IF intersects(l, p2)
     THEN LET b1 == [l EXCEPT !.vx = MulFrac(-l.vx, hit_speedup),
                              !.vy = l.vy + MulFrac(p2.vy, spin)]
          IN [ball |-> move(b1, Left(p2) - Right(b1), 0), hit |-> "right"]
     ELSE [ball |-> l, hit |-> IF intersects(b, p1) THEN "left" ELSE "none"]

\* collide that reflects the ball and leaves it where it is
collide_in_place(b, p1, p2) ==
  IF intersects(b, p1)
  THEN [ball |-> [b EXCEPT !.vx = MulFrac(-b.vx, hit_speedup),
                           !.vy = b.vy + MulFrac(p1.vy, spin)], hit |-> "left"]
  ELSE IF intersects(b, p2)
  THEN [ball |-> [b EXCEPT !.vx = MulFrac(-b.vx, hit_speedup),
                           !.vy = b.vy + MulFrac(p2.vy, spin)], hit |-> "right"]
  ELSE [ball |-> b, hit |-> "none"]

\* collide that speeds the ball up and puts it flush without turning it
collide_unturned(b, p1, p2) ==
  IF intersects(b, p1)
  THEN LET b1 == [b EXCEPT !.vx = MulFrac(b.vx, hit_speedup),
                           !.vy = b.vy + MulFrac(p1.vy, spin)]
       IN [ball |-> move(b1, Right(p1) - Left(b1), 0), hit |-> "left"]
  ELSE IF intersects(b, p2)
  THEN LET b1 == [b EXCEPT !.vx = MulFrac(b.vx, hit_speedup),
                           !.vy = b.vy + MulFrac(p2.vy, spin)]
       IN [ball |-> move(b1, Left(p2) - Right(b1), 0), hit |-> "right"]
  ELSE [ball |-> b, hit |-> "none"]

\* PongGame.physics, lines 419-439: the ball against the paddles
collide(b, p1, p2) ==
  IF intersects(b, p1)
  THEN LET b1 == [b EXCEPT !.vx = MulFrac(-b.vx, hit_speedup),
                           !.vy = b.vy + MulFrac(p1.vy, spin)]
       IN [ball |-> move(b1, Right(p1) - Left(b1), 0), hit |-> "left"]
  ELSE IF intersects(b, p2)
  THEN LET b1 == [b EXCEPT !.vx = MulFrac(-b.vx, hit_speedup),
                           !.vy = b.vy + MulFrac(p2.vy, spin)]
       IN [ball |-> move(b1, Left(p2) - Right(b1), 0), hit |-> "right"]
  ELSE [ball |-> b, hit |-> "none"]

\* PongGame.physics, lines 441-447: the player who scores (0: nobody)
goal(b) ==
  IF is_out_of_bounds(b)
  THEN IF Left(b) < 0 THEN PLAYER_TWO
       ELSE IF Right(b) > W THEN PLAYER_ONE
       ELSE 0
  ELSE 0

\* score with the two players exchanged
score_swapped(g, x_dir, y_dir) ==
  IF goal(g.ball) = PLAYER_TWO
  THEN reset([g EXCEPT !.p1_score = @ + 1], x_dir, y_dir)
  ELSE IF goal(g.ball) = PLAYER_ONE
  THEN reset([g EXCEPT !.p2_score = @ + 1], x_dir, y_dir)
  ELSE g

\* PongGame.physics, lines 441-447: the score and the reset after a goal
score(g, x_dir, y_dir) ==
  IF goal(g.ball) = PLAYER_TWO
  THEN reset([g EXCEPT !.p2_score = @ + 1], x_dir, y_dir)
  ELSE IF goal(g.ball) = PLAYER_ONE
  THEN reset([g EXCEPT !.p1_score = @ + 1], x_dir, y_dir)
  ELSE g

physics(g, x_dir, y_dir) ==
  score([g EXCEPT !.ball = collide(g.ball, g.pad1, g.pad2).ball], x_dir, y_dir)

\* PongGame.update, lines 409-413: the paddles, then the ball, then physics
advance(g, x_dir, y_dir) ==
  physics([g EXCEPT !.pad1 = Paddle_update(g.pad1),
                    !.pad2 = Paddle_update(g.pad2),
                    !.ball = Ball_update(g.ball)], x_dir, y_dir)

\* What the steps of advance(g) did, for the record of the last event: the ball
\* after each step of Ball.update and after the paddle test, the paddles after
\* Paddle.update, the paddle hit and the player who scored
trail(g) ==
  LET p1 == Paddle_update(g.pad1)
      p2 == Paddle_update(g.pad2)
      moved == GameObject_update(g.ball)
      walled == Ball_wall(moved)
      updated == Ball_update(g.ball)
      c == collide(updated, p1, p2)
  IN [moved |-> moved, walled |-> walled, updated |-> updated,
      collided |-> c.ball, hit |-> c.hit, goal |-> goal(c.ball),
      pad1 |-> p1, pad2 |-> p2]

\* PongGame.update, lines 401-407: the attribute get_move is looked up on every
\* agent that is not None; no agent class defines it (AttributeError)
policy_raises(agents) ==
  \E i \in 1..2 : agents[i] # None /\ "get_move" \notin Methods(agents[i])

\* PongGame.update: [raised, g]
update(g, agents, x_dir, y_dir) ==
  IF policy_raises(agents)
  THEN [raised |-> TRUE, g |-> g]
  ELSE [raised |-> FALSE, g |-> advance(g, x_dir, y_dir)]

\* PongGame.handle_key_pressed
handle_key_pressed(g, key, x_dir, y_dir) ==
  LET g1 == IF key = "w" THEN [g EXCEPT !.pad1 = move_up(g.pad1)]
            ELSE IF key = "s" THEN [g EXCEPT !.pad1 = move_down(g.pad1)]
            ELSE g
      g2 == IF key = "up" THEN [g1 EXCEPT !.pad2 = move_up(g1.pad2)]
            ELSE IF key = "down" THEN [g1 EXCEPT !.pad2 = move_down(g1.pad2)]
            ELSE g1
      g3 == IF key = "space" THEN toggle_pause(g2) ELSE g2
  IN IF key = "r" THEN reset(g3, x_dir, y_dir) ELSE g3

\* PongGame.handle_key_released
handle_key_released(g, key) ==
  LET g1 == IF key = "w" \/ key = "s" THEN [g EXCEPT !.pad1 = stop(g.pad1)] ELSE g
  IN IF key = "up" \/ key = "down" THEN [g1 EXCEPT !.pad2 = stop(g1.pad2)] ELSE g1

\* mainloop that calls update() whatever the pause flag
mainloop_unguarded(g, agents, x_dir, y_dir) ==
  LET u == update(g, agents, x_dir, y_dir)
  IN [raised |-> u.raised, ran |-> ~u.raised, g |-> u.g]

\* PongGame.mainloop: [raised, ran, g]; after(16, mainloop) is reached only when
\* update() returns
mainloop(g, agents, x_dir, y_dir) ==
  IF ~g.paused
  THEN LET u == update(g, agents, x_dir, y_dir)
       IN [raised |-> u.raised, ran |-> ~u.raised, g |-> u.g]
  ELSE [raised |-> FALSE, ran |-> FALSE, g |-> g]

\* ----------------------------------------------------------------- actions
Store(g) ==
  /\ ball' = g.ball
  /\ pad1' = g.pad1
  /\ pad2' = g.pad2
  /\ p1_score' = g.p1_score
  /\ p2_score' = g.p2_score
  /\ paused' = g.paused

\* the controller's fields are those of g
Is(g) ==
  /\ ball = g.ball
  /\ pad1 = g.pad1
  /\ pad2 = g.pad2
  /\ p1_score = g.p1_score
  /\ p2_score = g.p2_score
  /\ paused = g.paused

\* PongGame.__init__: scores 0, then reset()
Constructed(x_dir, y_dir) ==
  reset([ball |-> None, pad1 |-> None, pad2 |-> None,
         p1_score |-> 0, p2_score |-> 0, paused |-> FALSE], x_dir, y_dir)

\* The values of the parameter ball_max_speed that PongGame is constructed
\* with: its default and a lower one, in pixels per tick
ConfiguredMaxSpeeds == {Ball_DEFAULT_MAX_SPEED, Ball_DEFAULT_MAX_SPEED \div 2}

\* run() has scheduled the first mainloop; no tick has run
Started ==
  /\ scheduled = TRUE
  /\ nticks = 0
  /\ prev_hit = "none"

Init ==
  /\ ball_max_speed \in ConfiguredMaxSpeeds
  /\ \E x_dir \in Dirs, y_dir \in Dirs : Is(Constructed(x_dir, y_dir))
  /\ \E p1_ai_type \in {None, RULE_BASED}, p2_ai_type \in {None, RULE_BASED} :
       ai_players = <<make_ai(p1_ai_type), make_ai(p2_ai_type)>>
  /\ Started
  /\ last = [op |-> "init"]

\* The signs a new Ball draws: both when the event makes a ball, else one
\* pair, which the event never reads
NewDirs(resets) == IF resets THEN Dirs ELSE {1}

\* the tick about to be taken ends in a goal
WillReset ==
  ~paused /\ ~policy_raises(ai_players) /\ trail(Self).goal # 0

KeyPressed ==
  \E key \in Keys :
    \E x_dir \in NewDirs(key = "r"), y_dir \in NewDirs(key = "r") :
    /\ Store(handle_key_pressed(Self, key, x_dir, y_dir))
    /\ last' = [op |-> "key_pressed", key |-> key]
    /\ UNCHANGED <<ai_players, ball_max_speed, scheduled, nticks, prev_hit>>

KeyReleased ==
  \E key \in Keys :
    /\ Store(handle_key_released(Self, key))
    /\ last' = [op |-> "key_released", key |-> key]
    /\ UNCHANGED <<ai_players, ball_max_speed, scheduled, nticks, prev_hit>>

\* One firing of the 16 ms timer
Tick ==
  /\ scheduled
  /\ nticks < MaxTicks
  /\ \E x_dir \in NewDirs(WillReset), y_dir \in NewDirs(WillReset) :
       LET r == mainloop(Self, ai_players, x_dir, y_dir)
       IN /\ Store(r.g)
          /\ scheduled' = ~r.raised
          /\ last' = IF r.ran
                     THEN [op |-> "tick", ran |-> TRUE, raised |-> FALSE,
                           did |-> trail(Self), after |-> prev_hit]
                     ELSE [op |-> "tick", ran |-> FALSE, raised |-> r.raised]
          /\ prev_hit' = IF r.ran THEN trail(Self).hit ELSE prev_hit
  /\ nticks' = nticks + 1
  /\ UNCHANGED <<ai_players, ball_max_speed>>

Next == KeyPressed \/ KeyReleased \/ Tick

Spec == Init /\ [][Next]_vars

\* ------------------------------------------------------ bodies in mid-rally
\* The same controller with no policy attached to either side (ai_players as
\* line 314 leaves it), right after construction or in the middle of a rally.
\* A ball is <<left, width, top, velocity.x, velocity.y>> in pixels: next to a
\* paddle, a goal line or a wall, at the centre, at the speed of a new ball,
\* close to max_speed, or above it as a paddle's hit leaves it.  Paddle heights are <<pad1 top, pad2 top>> in pixels.
MidBalls ==
  { <<394, 12, 194, -3, -3>>,   \* free flight from the centre
    <<36, 12, 194, -3, -3>>,    \* onto the left paddle
    <<36, 12, 194, -9, 4>>,
    <<752, 12, 194, 3, 3>>,     \* onto the right paddle
    <<752, 12, 194, 9, -4>>,
    <<35, 12, 194, 10, 3>>,     \* just hit by the left paddle, sped up
    <<2, 12, 194, -3, -3>>,     \* over the left goal line
    <<786, 12, 194, 3, 3>> }    \* over the right goal line

MidPaddles == {<<180, 180>>}

EdgeBalls ==
  { <<394, 12, 3, -3, -3>>,     \* up to the upper edge
    <<394, 12, 3, 9, -4>>,      \* past the upper edge
    <<394, 12, 385, 3, 3>>,     \* down to the lower edge
    <<394, 12, 385, -9, 4>>,    \* past the lower edge
    <<36, 12, 3, -3, -3>>,      \* upper edge and left paddle
    <<752, 12, 385, 3, 3>>,     \* lower edge and right paddle
    <<2, 12, 2, -3, -3>> }      \* past the upper edge and the left goal line

EdgePaddles == {<<4, 356>>}

\* Balls built with Ball(canvas, x1, y1, x2, y2) as a test of one method builds
\* them: wide enough to lie over both paddles or over both goal lines, or
\* starting above the upper edge
TestBalls ==
  { <<20, 760, 194, -3, -3>>,   \* over both paddles
    <<20, 760, 194, 3, 3>>,
    <<20, 760, 194, 12, -5>>,
    <<-4, 808, 194, 3, 3>>,     \* over both goal lines
    <<394, 12, -1, 3, -3>>,     \* above the upper edge, rising
    <<394, 12, 3, -3, -3>>,     \* up to the upper edge
    <<394, 12, 385, 3, 3>>,     \* down to the lower edge
    <<394, 12, 386, 3, 3>>,     \* past the lower edge
    <<394, 12, 194, -3, -3>> }  \* free flight

\* A rally in progress: a ball and paddle heights of the sets, nobody having
\* scored, running
InRally(balls, tops) ==
  /\ \E b \in balls :
       ball = [Ball(Px(b[1]), Px(b[3]), Px(b[1] + b[2]), Px(b[3] + BALL_SIZE),
                    Px(Ball_DEFAULT_SPEED), Px(Ball_DEFAULT_MAX_SPEED), 1, 1)
               EXCEPT !.vx = Px(b[4]), !.vy = Px(b[5])]
  /\ \E py \in tops :
       /\ pad1 = [make_paddle(PLAYER_ONE, Px(Paddle_DEFAULT_SPEED)) EXCEPT !.y = Px(py[1])]
       /\ pad2 = [make_paddle(PLAYER_TWO, Px(Paddle_DEFAULT_SPEED)) EXCEPT !.y = Px(py[2])]
  /\ p1_score = 0
  /\ p2_score = 0
  /\ paused = FALSE
  /\ last = [op |-> "rally"]

InitBodies ==
  /\ ball_max_speed = Ball_DEFAULT_MAX_SPEED
  /\ \/ /\ \E x_dir \in Dirs, y_dir \in Dirs : Is(Constructed(x_dir, y_dir))
        /\ last = [op |-> "init"]
     \/ InRally(MidBalls, MidPaddles)
     \/ InRally(EdgeBalls, EdgePaddles)
  /\ ai_players = <<None, None>>
  /\ Started

SpecBodies == InitBodies /\ [][Next]_vars

\* The methods of the bodies and physics() applied to boxes that no rally
\* produces
InitPhysics ==
  /\ ball_max_speed = Ball_DEFAULT_MAX_SPEED
  /\ InRally(TestBalls, MidPaddles)
  /\ ai_players = <<None, None>>
  /\ Started

SpecPhysics == InitPhysics /\ [][Next]_vars

\* ------------------------------------------------------- the opponent policy
\* RuleBased(canvas, difficulty).get_action applied to snapshots of a rally,
\* with the canvas in the snapshot that the method reads it from.  Balls at
\* four distances from the paddles, above, level with and below them, moving
\* right or left; paddles above, at and below the resting position.
PolicyBalls ==
  { <<x, 12, y, v, v>> : x \in {36, 394, 700, 764}, y \in {50, 194, 350}, v \in {-3, 3} }

PolicyPaddleYs == {<<180, 180>>, <<4, 356>>, <<172, 100>>}

InitPolicy ==
  /\ ball_max_speed = Ball_DEFAULT_MAX_SPEED
  /\ InRally(PolicyBalls, PolicyPaddleYs)
  /\ ai_players = <<"RuleBased", "RuleBased">>
  /\ Started

\* the paddle of a side
PaddleOf(side) == IF side = PLAYER_ONE THEN pad1 ELSE pad2

\* One evaluation of a side's policy
Evaluate ==
  \E side \in {PLAYER_ONE, PLAYER_TWO}, difficulty \in Difficulties :
    /\ last' = [op |-> "get_action", side |-> side, difficulty |-> difficulty,
                action |-> get_action(difficulty, PaddleOf(side), ball)]
    /\ UNCHANGED <<ball, pad1, pad2, p1_score, p2_score, paused, ai_players,
                   ball_max_speed, scheduled, nticks, prev_hit>>

NextPolicy == Evaluate

SpecPolicy == InitPolicy /\ [][NextPolicy]_vars

\* ------------------------------------------------- paddles driven by policy
\* The tick with the policy step as the controller is meant to take it: each
\* side's policy is evaluated on the snapshot {canvas, ball, paddle}, the
\* paddle's method it returns is called, then the bodies and physics() run.
\* update() looks the policy up under the name get_move, which no class of
\* ai.py defines; RuleBased.get_action is the policy it would reach.

\* move(): the method of the paddle that the policy returned is called
Apply(action, p) ==
  IF action = "move_up" THEN move_up(p)
  ELSE IF action = "move_down" THEN move_down(p)
  ELSE stop(p)

\* PongGame.update, lines 401-407, with get_action as the policy of both sides
policy_step(g, d1, d2) ==
  [g EXCEPT !.pad1 = Apply(get_action(d1, g.pad1, g.ball), g.pad1),
            !.pad2 = Apply(get_action(d2, g.pad2, g.ball), g.pad2)]

\* Balls in the middle of the screen and next to the paddles, paddles at,
\* next to and far from the resting position
DrivenBalls ==
  { <<x, 12, y, v, v>> : x \in {100, 394, 688}, y \in {50, 194, 350}, v \in {-3, 3} }

DrivenPaddleYs == {<<180, 180>>, <<4, 356>>, <<186, 100>>, <<146, 148>>}

InitDriven ==
  /\ ball_max_speed = Ball_DEFAULT_MAX_SPEED
  /\ InRally(DrivenBalls, DrivenPaddleYs)
  /\ ai_players = <<"RuleBased", "RuleBased">>
  /\ Started

\* One firing of the timer in a RUNNING match: the policy step, then the
\* bodies and physics.  last records the actions returned, whether the ball
\* was moving away from each side, and what the steps did.
DrivenTick ==
  /\ scheduled
  /\ ~paused
  /\ nticks < MaxDriven
  /\ \E d1 \in Difficulties, d2 \in Difficulties :
       LET g == policy_step(Self, d1, d2)
       IN \E x_dir \in NewDirs(trail(g).goal # 0), y_dir \in NewDirs(trail(g).goal # 0) :
            /\ Store(advance(g, x_dir, y_dir))
            /\ last' = [op |-> "driven",
                        actions |-> <<get_action(d1, pad1, ball), get_action(d2, pad2, ball)>>,
                        away |-> <<~is_ball_approaching(ball, pad1),
                                   ~is_ball_approaching(ball, pad2)>>,
                        did |-> trail(g)]
            /\ prev_hit' = trail(g).hit
  /\ nticks' = nticks + 1
  /\ UNCHANGED <<ai_players, ball_max_speed, scheduled>>

NextDriven == DrivenTick

SpecDriven == InitDriven /\ [][NextDriven]_vars

\* ------------------------------------------------------------------ claims
\* the step is a tick whose update() ran to its end
RanTick == last.op = "tick" /\ last.ran

\* the state reset() leaves: a 12x12 ball centred on the screen with speed 3
\* along both axes, both paddles centred on their columns and still, paused
AfterReset ==
  /\ ball.x = (W - Px(12)) \div 2 /\ ball.y = (H - Px(12)) \div 2
  /\ ball.w = Px(12) /\ ball.h = Px(12)
  /\ Abs(ball.vx) = Px(3) /\ Abs(ball.vy) = Px(3)
  /\ pad1.x = Px(25) /\ pad1.y = Px(180) /\ pad1.vy = 0
  /\ pad2.x = W - Px(35) /\ pad2.y = Px(180) /\ pad2.vy = 0
  /\ paused

\* C1: in a RUNNING tick, if after integration and collision resolution the
\* ball's left edge is < 0, player two's score grows by exactly 1, player one's
\* is unchanged and reset() is applied; if its right edge is > screen_width,
\* player one's score grows by exactly 1 and player two's is unchanged.  In no
\* tick do both scores change.
C1_GoalScoresOnce ==
  [][ (last'.op = "tick") =>
        /\ ~(p1_score' # p1_score /\ p2_score' # p2_score)
        /\ last'.ran =>
             LET b == last'.did.collided
             IN /\ Left(b) < 0 =>
                     p2_score' = p2_score + 1 /\ p1_score' = p1_score /\ AfterReset'
                /\ Right(b) > W =>
                     p1_score' = p1_score + 1 /\ p2_score' = p2_score /\ AfterReset'
    ]_vars

C1_Witness ==
  /\ RanTick /\ Left(last.did.collided) < 0
  /\ p2_score = 1 /\ p1_score = 0 /\ AfterReset

\* C2: the match is PAUSED right after construction; the space key flips the
\* pause flag; the r key and every goal leave the match PAUSED; no other event
\* changes the pause flag.
C2_PauseFlag ==
  /\ (last.op = "init" => paused)
  /\ [][ /\ (last'.op = "key_pressed" /\ last'.key = "space") => paused' = ~paused
         /\ (last'.op = "key_pressed" /\ last'.key = "r") => paused'
         /\ (last'.op = "tick" /\ last'.ran /\ last'.did.goal # 0) => paused'
         /\ (last'.op = "key_pressed" /\ last'.key \notin {"space", "r"}) => paused' = paused
         /\ (last'.op = "key_released") => paused' = paused
         /\ (last'.op = "tick" /\ ~(last'.ran /\ last'.did.goal # 0)) => paused' = paused
     ]_vars

C2_Witness ==
  last.op = "key_pressed" /\ last.key = "space" /\ paused /\ nticks > 0 /\ p1_score > 0

\* C3: a timer tick taken while PAUSED changes no position, no velocity, no
\* score and not the pause flag; bodies move and scores change only in a tick
\* taken while RUNNING (a restart re-spawns the bodies).
C3_PausedTickChangesNothing ==
  [][ /\ (last'.op = "tick" /\ paused) =>
            UNCHANGED <<ball, pad1, pad2, p1_score, p2_score, paused>>
      /\ (p1_score' # p1_score \/ p2_score' # p2_score) =>
            (last'.op = "tick" /\ ~paused)
      /\ (ball'.x # ball.x \/ ball'.y # ball.y \/ pad1'.y # pad1.y \/ pad2'.y # pad2.y) =>
            \/ last'.op = "tick" /\ ~paused
            \/ last'.op = "key_pressed" /\ last'.key = "r"
    ]_vars

C3_Witness ==
  /\ last.op = "tick" /\ ~last.ran /\ paused
  /\ pad1.vy # 0 /\ nticks = 2 /\ ball.y # Px(194)
\* C4: in every RUNNING tick the policy evaluation step does not fail, and the
\* tick goes on to advance both paddles and then the ball.
C4_PolicyStepNeverFails ==
  [][ (last'.op = "tick" /\ ~paused) => (~last'.raised /\ last'.ran) ]_vars

\* the speed of a body, as Point.magnitude measures it
Speed(b) == magnitude(b.vx, b.vy)

\* the rounding error of max_speed * unit_vector: max_speed times one unit of
\* the representation
ClampError(b) == b.max_speed \div Scale

\* C5 as stated: after every Ball.update the magnitude of the ball's velocity
\* is at most max_speed.
C5_SpeedAtMostMax ==
  RanTick => Speed(last.did.updated) <= last.did.updated.max_speed

\* C5 amended: after every Ball.update the magnitude of the ball's velocity is
\* at most max_speed plus the rounding error of the rescaling; a velocity whose
\* magnitude exceeded max_speed is rescaled to magnitude max_speed within that
\* error, each component keeping its sign; any other velocity is left as it is.
C5_SpeedClampedWithinRounding ==
  RanTick =>
    LET pre == last.did.walled
        post == last.did.updated
    IN /\ Speed(post) <= post.max_speed + ClampError(post)
       /\ Speed(pre) > pre.max_speed =>
            /\ Speed(post) >= post.max_speed - ClampError(post)
            /\ Sign(post.vx) = Sign(pre.vx) /\ Sign(post.vy) = Sign(pre.vy)
       /\ Speed(pre) <= pre.max_speed => post.vx = pre.vx /\ post.vy = pre.vy
       /\ post.x = pre.x /\ post.y = pre.y

C5_Witness ==
  /\ RanTick
  /\ Speed(last.did.walled) > last.did.walled.max_speed
  /\ Speed(last.did.updated) > last.did.updated.max_speed
  /\ Speed(last.did.updated) <= last.did.updated.max_speed + ClampError(last.did.updated)

\* x is the product of v and the fraction f, to the nearest unit
IsProduct(x, v, f) == Abs(x * f.den - v * f.num) * 2 <= f.den

\* the ball c is the ball u after a hit by the paddle p: x-velocity reflected
\* and sped up once, spin added, same height
Reflected(c, u, p) ==
  /\ IsProduct(-c.vx, u.vx, hit_speedup)
  /\ IsProduct(c.vy - u.vy, p.vy, spin)
  /\ c.y = u.y

\* C6: at most one paddle collision is resolved per tick and the left paddle
\* has priority: a ball whose box overlaps both paddles' boxes gets the
\* left-paddle resolution only (x-velocity reflected once, flush with the left
\* paddle's right edge); the right paddle is tested only when the ball does not
\* intersect the left paddle.
C6_LeftPaddleFirst ==
  RanTick =>
    LET u == last.did.updated
        c == last.did.collided
        p1 == last.did.pad1
        p2 == last.did.pad2
    IN /\ (intersects(u, p1) /\ intersects(u, p2)) =>
            /\ last.did.hit = "left"
            /\ Reflected(c, u, p1)
            /\ Left(c) = Right(p1)
            /\ Right(c) # Left(p2)
       /\ last.did.hit = "right" => ~intersects(u, p1)
       /\ last.did.hit \in {"none", "left", "right"}

C6_Witness ==
  /\ RanTick
  /\ intersects(last.did.updated, last.did.pad1)
  /\ intersects(last.did.updated, last.did.pad2)
  /\ last.did.hit = "left"
  /\ last.did.pad1.vy # last.did.pad2.vy

\* C7: a ball intersecting the left paddle in the collision step gets
\* velocity.x = -hit_speedup * velocity.x, velocity.y increased by spin times
\* the paddle's velocity.y and left = paddle.right at the same height; a ball
\* intersecting the right paddle likewise with right = paddle.left; a ball
\* intersecting neither keeps its velocity and its position.
C7_CollisionResponse ==
  RanTick =>
    LET u == last.did.updated
        c == last.did.collided
        p1 == last.did.pad1
        p2 == last.did.pad2
    IN /\ intersects(u, p1) => Reflected(c, u, p1) /\ Left(c) = Right(p1)
       /\ intersects(u, p2) => Reflected(c, u, p2) /\ Right(c) = Left(p2)
       /\ (~intersects(u, p1) /\ ~intersects(u, p2)) => c = u

C7_Witness ==
  /\ RanTick
  /\ intersects(last.did.updated, last.did.pad2)
  /\ last.did.pad2.vy > 0
  /\ Right(last.did.collided) = Left(last.did.pad2)
  /\ last.did.collided.vx < 0

\* the wall step of Ball.update took the ball `moved` to `walled` by a bounce
Bounced(moved, walled) == walled.vy = -moved.vy

OnScreen(p, x) == p.x = x /\ 0 <= Top(p) /\ Bottom(p) <= H

\* C9: in every reachable state both paddles lie inside the screen vertically;
\* Paddle.update moves the paddle by its velocity and then sets top to 0 if
\* top < 0, or top to screen_height - height if bottom > screen_height; no
\* paddle moves horizontally: the left paddle's left edge stays 25 from the
\* left screen edge, the right paddle's right edge 25 from the right one.
C9_PaddlesOnScreen ==
  /\ [](OnScreen(pad1, Px(25)) /\ OnScreen(pad2, W - Px(25) - pad2.w))
  /\ [][ (last'.op = "tick" /\ last'.ran) =>
           \A i \in 1..2 :
             LET p == IF i = 1 THEN pad1 ELSE pad2
                 q == IF i = 1 THEN last'.did.pad1 ELSE last'.did.pad2
                 y == p.y + p.vy
             IN /\ q.y = IF y < 0 THEN 0
                         ELSE IF y + p.h > H THEN H - p.h
                         ELSE y
                /\ q.x = p.x /\ q.vy = p.vy
                /\ (last'.did.goal = 0) => (IF i = 1 THEN pad1' ELSE pad2') = q
     ]_vars

C9_Witness ==
  /\ RanTick /\ last.did.goal = 0
  /\ pad1.vy < 0 /\ Top(pad1) = 0
  /\ pad2.vy > 0 /\ Bottom(pad2) = H
  /\ nticks = 1

\* the ball moves toward the side of the paddle
MovesToward(side) == IF side = PLAYER_ONE THEN ball.vx < 0 ELSE ball.vx > 0

\* the action that takes the paddle p toward the height y
Toward(p, y) ==
  IF Top(p) < y /\ y < Bottom(p) THEN "stop"
  ELSE IF y < CentreY(p) THEN "move_up"
  ELSE IF y > CentreY(p) THEN "move_down"
  ELSE "stop"

\* C10: with difficulty IMPOSSIBLE, whenever the ball is approaching the
\* paddle's side, at any horizontal distance, the policy tracks the ball: stop
\* if paddle.top < ball.centre.y < paddle.bottom, else move-up if
\* ball.centre.y < paddle.centre.y and move-down if it is greater.
C10_ImpossibleTracksBall ==
  (last.op = "get_action" /\ last.difficulty = IMPOSSIBLE /\ MovesToward(last.side)) =>
    last.action = Toward(PaddleOf(last.side), CentreY(ball))

\* the resting position the policy aims at: screen_height/2 - paddle.height/2
RestingTarget(p) == H \div 2 - p.h \div 2

\* C11: for every difficulty, when the ball moves away from the paddle's side
\* the action of the policy aims at the resting position whatever the ball's
\* height: stop if paddle.top < target < paddle.bottom, else move-up if the
\* target is above the paddle's centre and move-down if it is below; the
\* action is one of move-up, move-down and stop, and evaluating the policy
\* changes nothing of the game.
C11_RestsWhenBallRecedes ==
  /\ [](last.op = "get_action" =>
        /\ last.action \in {"move_up", "move_down", "stop"}
        /\ ~MovesToward(last.side) =>
             last.action = Toward(PaddleOf(last.side), RestingTarget(PaddleOf(last.side))))
  /\ [][last'.op = "get_action" =>
          UNCHANGED <<ball, pad1, pad2, p1_score, p2_score, paused>>]_vars

\* EASY, the ball closer to the paddle than 0.8 of the screen width and moving
\* away, at a height that following it would answer with another action
C11_Witness ==
  /\ last.op = "get_action" /\ last.difficulty = EASY
  /\ ~MovesToward(last.side)
  /\ Abs(CentreX(ball) - CentreX(PaddleOf(last.side))) < dead_zone_size(EASY)
  /\ last.action # "stop"
  /\ last.action # Toward(PaddleOf(last.side), CentreY(ball))

\* the last event called reset(): the construction, the restart key, or a
\* tick that ended in a goal
ResetHappened ==
  \/ last.op = "init"
  \/ last.op = "key_pressed" /\ last.key = "r"
  \/ RanTick /\ last.did.goal # 0

\* C12: after every reset(), at construction, after a goal and on restart,
\* from any prior state, the ball is a 12x12 box centred on the screen with
\* velocity (sx * speed, sy * speed), sx and sy each +1 or -1, both paddles
\* are vertically centred on their columns and the match is PAUSED; each of
\* the four pairs of signs can be the one drawn: reset() in this state with
\* the signs (sx, sy) drawn gives the ball exactly that velocity.
C12_ResetState ==
  /\ ResetHappened => AfterReset
  /\ NewDirs(TRUE) = {-1, 1}
  /\ \A sx \in {-1, 1}, sy \in {-1, 1} :
       LET b == reset(Self, sx, sy).ball
       IN b.vx = sx * Px(3) /\ b.vy = sy * Px(3)

\* a goal from a state with both paddles away from the centre, the new ball
\* going left and down
C12_Witness ==
  /\ RanTick /\ last.did.goal # 0
  /\ last.did.pad1.y # Px(180) /\ last.did.pad2.y # Px(180)
  /\ AfterReset /\ ball.vx < 0 /\ ball.vy > 0

\* the keys that move a paddle
MoveKeys == {"w", "s", "up", "down"}

\* the step is the event of a movement key
MoveKeyEvent ==
  last'.op \in {"key_pressed", "key_released"} /\ last'.key \in MoveKeys

\* a paddle at the height y, kept on screen
KeptOnScreen(p, y) == IF y < 0 THEN 0 ELSE IF y + p.h > H THEN H - p.h ELSE y

\* C13: the event of a movement key, in PAUSED as in RUNNING, writes the
\* velocity of one paddle and nothing else: key-down of the up (down) key sets
\* it to (0, -speed) ((0, +speed)), key-up of either key of the side sets it
\* to (0, 0); no position, other paddle, ball, score or pause flag changes and
\* nothing is queued; the same event applied again changes nothing more; the
\* next tick moves each paddle by the velocity written last.
C13_KeyEventWritesVelocity ==
  [][/\ MoveKeyEvent =>
          LET left == last'.key \in {"w", "s"}
              p == IF left THEN pad1 ELSE pad2
              vy == IF last'.op = "key_released" THEN 0
                    ELSE IF last'.key \in {"w", "up"} THEN -Px(8) ELSE Px(8)
          IN /\ (IF left THEN pad1' ELSE pad2') = [p EXCEPT !.vx = 0, !.vy = vy]
             /\ (IF left THEN pad2' ELSE pad1') = (IF left THEN pad2 ELSE pad1)
             /\ UNCHANGED <<ball, p1_score, p2_score, paused, scheduled, nticks>>
             /\ IF last'.op = "key_pressed"
                THEN handle_key_pressed(Self', last'.key, 1, 1) = Self'
                ELSE handle_key_released(Self', last'.key) = Self'
     /\ (last'.op = "tick" /\ last'.ran) =>
          /\ last'.did.pad1.y = KeptOnScreen(pad1, pad1.y + pad1.vy)
          /\ last'.did.pad2.y = KeptOnScreen(pad2, pad2.y + pad2.vy)
          /\ last'.did.pad1.vy = pad1.vy /\ last'.did.pad2.vy = pad2.vy]_vars

\* a movement key of the right paddle pressed while PAUSED, after one of the
\* left paddle whose velocity stays as written
C13_Witness ==
  /\ last.op = "key_pressed" /\ last.key = "down" /\ paused
  /\ pad2.vx = 0 /\ pad2.vy = Px(8)
  /\ pad1.vy = -Px(8)

\* the step is a tick whose update() ran and in which the ball touched no
\* wall, met no paddle and stayed inside the screen
FreeFlightTick ==
  /\ last'.op = "tick" /\ last'.ran
  /\ Top(last'.did.moved) > 0 /\ Bottom(last'.did.moved) < H
  /\ Left(last'.did.moved) >= 0 /\ Right(last'.did.moved) <= W
  /\ last'.did.hit = "none" /\ last'.did.goal = 0

\* C14: a RUNNING tick in which the ball touches no wall, intersects no paddle
\* and stays inside the screen moves the ball by exactly its velocity and
\* leaves its velocity, both scores and the pause flag unchanged.
C14_FreeFlightKeepsVelocity ==
  [][FreeFlightTick =>
       /\ ball'.x = ball.x + ball.vx /\ ball'.y = ball.y + ball.vy
       /\ ball'.vx = ball.vx /\ ball'.vy = ball.vy
       /\ UNCHANGED <<p1_score, p2_score, paused>>]_vars

\* C15: the speed limit of Ball.update is the configured one: every ball that
\* reset() makes through get_centred_ball has max_speed equal to the
\* ball_max_speed the controller was constructed with, whatever that value.
C15_MaxSpeedIsConfigured == ball.max_speed = Px(ball_max_speed)

\* C16: at every tick boundary the ball lies vertically inside the screen,
\* 0 <= top and bottom <= screen_height, whatever its vertical velocity, spin
\* included; so the out-of-bounds test of the scoring step is only ever met
\* through the ball's left or right edge, and every time it is met exactly one
\* player scores.
C16_BallVerticallyInside ==
  /\ [](0 <= Top(ball) /\ Bottom(ball) <= H)
  /\ [](RanTick =>
        /\ 0 <= Top(last.did.collided) /\ Bottom(last.did.collided) <= H
        /\ is_out_of_bounds(last.did.collided) =>
             (Left(last.did.collided) < 0) # (Right(last.did.collided) > W))
  /\ [][(last'.op = "tick" /\ last'.ran /\ is_out_of_bounds(last'.did.collided)) =>
          \/ p1_score' = p1_score + 1 /\ p2_score' = p2_score
          \/ p2_score' = p2_score + 1 /\ p1_score' = p1_score]_vars

\* a tick in which the ball went past the upper edge, was put back inside,
\* and then crossed a goal line
C16_Witness ==
  /\ RanTick
  /\ Top(last.did.moved) < 0
  /\ Top(last.did.collided) = 0
  /\ is_out_of_bounds(last.did.collided)
  /\ p1_score + p2_score = 1

\* C17: the ball's speed invariant holds at every tick boundary: at the end
\* of every RUNNING tick, after collision resolution has applied hit-speedup
\* and spin, the magnitude of the velocity is at most max_speed (here: at most
\* max_speed plus the rounding error of the rescaling, so that only a speed
\* above the limit by more than rounding counts against it).
C17_SpeedWithinMaxAtTickEnd ==
  (RanTick /\ last.did.goal = 0) =>
    Speed(ball) <= ball.max_speed + ClampError(ball)

\* C18: both scores start at 0 and never decrease; they change only in a
\* RUNNING tick that detects a goal, and then their sum grows by exactly 1;
\* restart, pause toggle, a movement key event and a PAUSED tick leave both
\* scores unchanged.
C18_ScoresOnlyGrowByGoals ==
  /\ [](last.op = "init" => p1_score = 0 /\ p2_score = 0)
  /\ [][/\ p1_score' >= p1_score /\ p2_score' >= p2_score
        /\ ~(UNCHANGED <<p1_score, p2_score>>) =>
             last'.op = "tick" /\ last'.ran /\ last'.did.goal # 0
        /\ (last'.op = "tick" /\ last'.ran /\ last'.did.goal # 0) =>
             p1_score' + p2_score' = p1_score + p2_score + 1
        /\ last'.op \in {"key_pressed", "key_released"} =>
             UNCHANGED <<p1_score, p2_score>>
        /\ (last'.op = "tick" /\ ~last'.ran) =>
             UNCHANGED <<p1_score, p2_score>>]_vars

\* the restart key after a goal: the score of the goal is kept
C18_Witness ==
  /\ last.op = "key_pressed" /\ last.key = "r"
  /\ p1_score + p2_score = 1

\* C19: whenever a paddle collision is resolved the ball was moving toward
\* that paddle's side, so afterwards its x-velocity points away from the
\* paddle (positive after a hit of the left paddle, negative after one of the
\* right paddle) and, being flush, the ball no longer intersects that paddle;
\* the same paddle never resolves a collision in two consecutive RUNNING
\* ticks.
C19_HitTurnsBallAway ==
  /\ [](/\ ball.vx > 0 => Left(ball) >= Right(pad1)
        /\ ball.vx < 0 => Right(ball) <= Left(pad2))
  /\ [](RanTick =>
        /\ last.did.hit = "left" =>
             /\ last.did.updated.vx < 0 /\ last.did.collided.vx > 0
             /\ ~intersects(last.did.collided, last.did.pad1)
        /\ last.did.hit = "right" =>
             /\ last.did.updated.vx > 0 /\ last.did.collided.vx < 0
             /\ ~intersects(last.did.collided, last.did.pad2))
  /\ []((RanTick /\ last.did.hit # "none") => last.did.hit # last.after)
  /\ [][(last'.op = "tick" /\ last'.ran) => last'.after = prev_hit]_vars

\* the RUNNING tick after a hit of the left paddle, the paddle moving: the
\* ball, still next to the paddle, is not hit again
C19_Witness ==
  /\ RanTick /\ last.after = "left" /\ last.did.hit = "none"
  /\ ball.vx > 0 /\ Left(ball) > Right(pad1)
  /\ Left(ball) < Right(pad1) + Px(12)
  /\ pad1.vy # 0

\* the span of the paddle strictly contains its resting target
AtRest(p) == Top(p) < RestingTarget(p) /\ RestingTarget(p) < Bottom(p)

\* A tick of a policy-driven paddle p, which Paddle.update leaves as q, with
\* the ball moving away: at rest the action is stop and the paddle stays;
\* otherwise the paddle moves one step toward the target and not past it, so
\* that it is at rest after finitely many such ticks
RestingStep(action, p, q) ==
  IF AtRest(p)
  THEN action = "stop" /\ q.y = p.y /\ q.vy = 0
  ELSE IF Top(p) >= RestingTarget(p)
  THEN action = "move_up" /\ q.y = p.y - Px(8) /\ Bottom(q) > RestingTarget(p)
  ELSE action = "move_down" /\ q.y = p.y + Px(8) /\ Top(q) < RestingTarget(p)

\* the actions of two consecutive ticks do not alternate, and stop is kept
Steady(before, now) ==
  /\ ~(before = "move_up" /\ now = "move_down")
  /\ ~(before = "move_down" /\ now = "move_up")
  /\ before = "stop" => now = "stop"

====
